---- MODULE Spec2Model ----
(***************************************************************************)
(* Model of the data-access and alignment layer of insar_wroc (src/app.py):*)
(* the wide-format readers, the chunked long-format scanner, the is_anomaly*)
(* normalizer, the four lru_cache-wrapped lookups and the tail alignment   *)
(* done in display_displacement.                                           *)
(*                                                                         *)
(* Strings are sequences of one-character strings, so that str.strip and   *)
(* str.lower are computed and not assumed.  A DataFrame is a record        *)
(* [columns |-> set of column names, rows |-> sequence of row records].    *)
(* The four float32 columns of an anomaly file (lower_bound, upper_bound,  *)
(* actual_value, predicted_value) are read and carried through every       *)
(* operation in the same way; the model carries actual_value for them.     *)
(***************************************************************************)
EXTENDS Integers, Sequences, FiniteSets, TLC

VARIABLES
    cache,      \* kind -> the lru_cache of cached_<kind>: entries, least recent first
    pc,         \* worker -> position in display_displacement
    point_id,   \* worker -> the id of the running request
    frames,     \* worker -> the locals insar, pred, a95, a99 of the request
    out,        \* worker -> the list `out` of the running read_anom_pid_chunked
    pos,        \* worker -> number of chunks the running scan has consumed
    looked,     \* kind -> ids whose lookup has completed and was not evicted since
    repeat,     \* worker -> the running lookup began after a completed one of its id
    started,    \* number of requests dispatched so far
    call,       \* the function applied and its arguments (function-level runs)
    ret         \* what it returned (function-level runs)

vars == <<cache, pc, point_id, frames, out, pos, looked, repeat, started, call, ret>>

sysvars == <<cache, pc, point_id, frames, out, pos, looked, repeat, started>>

(***************************************************************************)
(* Bounds of the model.                                                    *)
(***************************************************************************)
MaxRows == 3

MaxRequests == 3

\* rows per chunk read by the cached scans (the code's default scaled down)
ChunkRows == 2

\* capacity of each lru_cache (maxsize=512 in the code, scaled down so that
\* eviction happens)
CacheCap == 1

(***************************************************************************)
(* Strings.                                                                *)
(***************************************************************************)
Whitespace == {" ", "\t"}

RECURSIVE lstrip(_)
lstrip(s) == IF s # <<>> /\ Head(s) \in Whitespace THEN lstrip(Tail(s)) ELSE s

RECURSIVE rstrip(_)
rstrip(s) ==
    IF s # <<>> /\ s[Len(s)] \in Whitespace THEN rstrip(SubSeq(s, 1, Len(s) - 1)) ELSE s

\* str.strip()
str_strip(s) == rstrip(lstrip(s))

lower_char(c) ==
    CASE c = "T" -> "t"
      [] c = "R" -> "r"
      [] c = "U" -> "u"
      [] c = "E" -> "e"
      [] c = "Y" -> "y"
      [] c = "S" -> "s"
      [] c = "F" -> "f"
      [] c = "A" -> "a"
      [] c = "L" -> "l"
      [] c = "N" -> "n"
      [] c = "O" -> "o"
      [] c = "P" -> "p"
      [] OTHER -> c

\* str.lower()
str_lower(s) == [i \in 1..Len(s) |-> lower_char(s[i])]

(***************************************************************************)
(* Cells of a column.  dtype "string" cells hold a string or NA; int8      *)
(* cells hold 0 or 1.                                                      *)
(***************************************************************************)
Str(s) == [dtype |-> "string", na |-> FALSE, s |-> s, i |-> 0]

NA == [dtype |-> "string", na |-> TRUE, s |-> <<>>, i |-> 0]

Int8(i) == [dtype |-> "int8", na |-> FALSE, s |-> <<>>, i |-> i]

\* Series.astype(str) on one cell
astype_str(c) ==
    IF c.dtype = "int8" THEN (IF c.i = 1 THEN <<"1">> ELSE <<"0">>)
    ELSE IF c.na THEN <<"<", "N", "A", ">">>
    ELSE c.s

\* float32 cells of a wide file: a number or NaN
Num(v) == [nan |-> FALSE, v |-> v]

NaN == [nan |-> TRUE, v |-> 0]

(***************************************************************************)
(* _normalize_is_anomaly, on one cell and on a column.                     *)
(***************************************************************************)
TrueLiterals ==
    { <<"t", "r", "u", "e">>, <<"1">>, <<"t">>, <<"y", "e", "s">>, <<"y">> }

normalize_cell_no_lower(c) ==
    Int8(IF str_strip(astype_str(c)) \in TrueLiterals THEN 1 ELSE 0)

normalize_cell(c) ==
    Int8(IF str_lower(str_strip(astype_str(c))) \in TrueLiterals THEN 1 ELSE 0)

_normalize_is_anomaly(rows) ==
    [i \in 1..Len(rows) |-> [rows[i] EXCEPT !.is_anomaly = normalize_cell(@)]]

(***************************************************************************)
(* DataFrames.                                                             *)
(***************************************************************************)
\* pd.DataFrame(): no columns, no rows
EmptyFrame == [columns |-> {}, rows |-> <<>>]

\* DataFrame.empty: some axis has length 0
empty(df) == df.rows = <<>> \/ df.columns = {}

Min(a, b) == IF a <= b THEN a ELSE b

tail_takes_head(rows, n) == SubSeq(rows, 1, Min(n, Len(rows)))

\* DataFrame.tail(n).reset_index(drop=True): the last n rows, in order
tail(rows, n) == SubSeq(rows, Len(rows) - Min(n, Len(rows)) + 1, Len(rows))

RECURSIVE insert_sorted(_, _)
insert_sorted(r, sorted) ==
    IF sorted = <<>> THEN <<r>>
    ELSE IF r.timestamp < Head(sorted).timestamp THEN <<r>> \o sorted
    ELSE <<Head(sorted)>> \o insert_sorted(r, Tail(sorted))

RECURSIVE sort_rows(_)
sort_rows(rows) ==
    IF rows = <<>> THEN <<>>
    ELSE insert_sorted(rows[Len(rows)], sort_rows(SubSeq(rows, 1, Len(rows) - 1)))

\* df.sort_values("timestamp").reset_index(drop=True)
sort_values(df) == [df EXCEPT !.rows = sort_rows(@)]

(***************************************************************************)
(* read_insar_pid / read_pred_pid.  A wide file is                         *)
(* [columns |-> set of ids, rows |-> sequence of [Date, cells]], where     *)
(* cells maps each id of the header to a float32 cell.                     *)
(***************************************************************************)
DateStrings == {"2020-01-01", "2020-01-02", "2020-01-03"}

\* pd.to_datetime on a Date cell, as a day ordinal
to_datetime(d) ==
    CASE d = "2020-01-01" -> 1
      [] d = "2020-01-02" -> 2
      [] d = "2020-01-03" -> 3

Returned(df) == [exc |-> "none", df |-> df]

Raised(e) == [exc |-> e, df |-> EmptyFrame]

dropna_keep_all(rows, col) == rows

\* df.dropna(subset=[col])
dropna(rows, col) == SelectSeq(rows, LAMBDA r : ~r[col].nan)

\* pd.read_csv(path, usecols=["Date", pid]): the header must hold every name
\* of usecols, else pandas raises ValueError
read_csv_usecols(file, col) ==
    IF col \in file.columns
    THEN [exc |-> "none", file |-> file]
    ELSE [exc |-> "ValueError", file |-> file]

read_insar_pid(file, pid) ==
    LET p    == str_strip(pid)
        csv  == read_csv_usecols(file, p)
        df   == [i \in 1..Len(csv.file.rows) |->
                   [timestamp    |-> to_datetime(csv.file.rows[i].Date),
                    displacement |-> csv.file.rows[i].cells[p]]]
    IN  IF csv.exc # "none" THEN Raised(csv.exc)
        ELSE Returned(sort_values([columns |-> {"timestamp", "displacement"},
                                   rows    |-> dropna(df, "displacement")]))

read_pred_pid(file, pid) ==
    LET p    == str_strip(pid)
        csv  == read_csv_usecols(file, p)
        df   == [i \in 1..Len(csv.file.rows) |->
                   [timestamp       |-> to_datetime(csv.file.rows[i].Date),
                    predicted_value |-> csv.file.rows[i].cells[p]]]
    IN  IF csv.exc # "none" THEN Raised(csv.exc)
        ELSE Returned(sort_values([columns |-> {"timestamp", "predicted_value"},
                                   rows    |-> dropna(df, "predicted_value")]))

(***************************************************************************)
(* read_anom_pid_chunked.  A long file is a sequence of rows               *)
(* [pid, actual_value, is_anomaly]; pid and is_anomaly are string cells.   *)
(***************************************************************************)
ANOM_USECOLS == {"pid", "actual_value", "is_anomaly"}

\* the k-th chunk pd.read_csv(path, chunksize=chunksize) yields
chunk(rows, chunksize, k) ==
    SubSeq(rows, (k - 1) * chunksize + 1, Min(k * chunksize, Len(rows)))

more_chunks_break(rows, chunksize, k, acc) ==
    (k - 1) * chunksize < Len(rows) /\ acc = <<>>

\* the for loop goes on while the reader has a chunk left
more_chunks(rows, chunksize, k, acc) == (k - 1) * chunksize < Len(rows)

\* ch["pid"] = ch["pid"].str.strip(): NA stays NA
strip_pid(rows) ==
    [i \in 1..Len(rows) |->
        [rows[i] EXCEPT !.pid = IF @.na THEN @ ELSE Str(str_strip(@.s))]]

\* one iteration of the loop: the new value of `out`
scan_chunk(acc, ch, pid) ==
    LET part == SelectSeq(strip_pid(ch), LAMBDA r : ~r.pid.na /\ r.pid.s = pid)
    IN  IF part # <<>> THEN Append(acc, _normalize_is_anomaly(part)) ELSE acc

RECURSIVE concat(_)
concat(parts) == IF parts = <<>> THEN <<>> ELSE Head(parts) \o concat(Tail(parts))

\* the code after the loop
scan_finish(acc) ==
    IF acc = <<>> THEN EmptyFrame
    ELSE [columns |-> ANOM_USECOLS,
          rows    |-> _normalize_is_anomaly(
                          [i \in 1..Len(concat(acc)) |->
                              [concat(acc)[i] EXCEPT
                                  !.pid = Str(str_strip(astype_str(@)))]])]

RECURSIVE scan_from(_, _, _, _, _)
scan_from(rows, pid, chunksize, k, acc) ==
    IF more_chunks(rows, chunksize, k, acc)
    THEN scan_from(rows, pid, chunksize, k + 1,
                   scan_chunk(acc, chunk(rows, chunksize, k), pid))
    ELSE acc

read_anom_pid_chunked(rows, pid, chunksize) ==
    scan_finish(scan_from(rows, str_strip(pid), chunksize, 1, <<>>))

(***************************************************************************)
(* The alignment of display_displacement (lines 235-248) and what is then  *)
(* drawn (lines 265-328).                                                  *)
(***************************************************************************)
both_nonempty_unguarded(pred, a) == TRUE

\* pred is not None and not pred.empty and a is not None and not a.empty
both_nonempty(pred, a) == ~empty(pred) /\ ~empty(a)

\* a = a.tail(n).reset_index(drop=True); a["timestamp"] = pred_tail["timestamp"].values
align_band(pred, a) ==
    IF both_nonempty(pred, a)
    THEN LET n         == Min(Len(pred.rows), Len(a.rows))
             pred_tail == tail(pred.rows, n)
             a_tail    == tail(a.rows, n)
         IN  [columns |-> a.columns \cup {"timestamp"},
              rows    |-> [i \in 1..Len(a_tail) |->
                             [c \in DOMAIN a_tail[i] \cup {"timestamp"} |->
                                 IF c = "timestamp" THEN pred_tail[i].timestamp
                                 ELSE a_tail[i][c]]]]
    ELSE a

align(pred, a95, a99) ==
    LET p == IF ~empty(pred) THEN sort_values(pred) ELSE pred
    IN  [pred |-> p, a95 |-> align_band(p, a95), a99 |-> align_band(p, a99)]

\* the traces added to the figure after the measured series
drawn(al) ==
    [pred |-> ~empty(al.pred),
     a95  |-> ~empty(al.a95) /\ "timestamp" \in al.a95.columns,
     a99  |-> ~empty(al.a99) /\ "timestamp" \in al.a99.columns]

(***************************************************************************)
(* Function-level runs: the inputs are drawn in the initial state and one  *)
(* action per function applies it.                                         *)
(***************************************************************************)
P1 == <<"P", "1">>

P2 == <<"P", "2">>

P3 == <<"P", "3">>

SeqsUpTo(S, n) == UNION {[1..k -> S] : k \in 0..n}

\* raw is_anomaly cells: the encodings of the docstring, padded and mixed-case
\* variants, unrecognized text, the empty string, a missing value
RawFlags ==
    { Str(<<"T", "r", "u", "e">>), Str(<<"1">>), Str(<<"t">>),
      Str(<<"Y", "E", "S">>), Str(<<"y">>), Str(<<" ", "T", "R", "U", "E", "\t">>),
      Str(<<"F", "a", "l", "s", "e">>), Str(<<"0">>), Str(<<"n", "o">>),
      Str(<<>>), Str(<<"m", "a", "y", "b", "e">>), Str(<<"1", "1">>), NA }

ScanFlags == { Str(<<" ", "Y", "e", "s">>), Str(<<"0">>), NA }

ScanPids == { Str(P1), Str(<<" ", "P", "1", "\t">>), Str(P2), NA }

LongFiles ==
    { [i \in 1..Len(q) |->
          [pid |-> q[i][1], actual_value |-> i, is_anomaly |-> q[i][2]]] :
      q \in SeqsUpTo(ScanPids \X ScanFlags, MaxRows) }

WideCells == { NaN, Num(5), Num(6) }

\* one row per date: the dates of a wide file are distinct
WideFiles ==
    { [columns |-> {P1},
       rows    |-> [i \in 1..Len(q) |-> [Date |-> q[i][1], cells |-> (P1 :> q[i][2])]]] :
      q \in { x \in SeqsUpTo(DateStrings \X WideCells, MaxRows) :
                \A i, j \in 1..Len(x) : i # j => x[i][1] # x[j][1] } }

\* prediction series as read_pred_pid returns them
PredFrames ==
    { read_pred_pid(f, P1).df : f \in WideFiles }

\* anomaly sequences as read_anom_pid_chunked returns them
AnomFrames ==
    { read_anom_pid_chunked(f, P1, ChunkRows) :
      f \in { g \in LongFiles : \A i \in 1..Len(g) : g[i].pid = Str(P1) } }

Calls ==
    [fn : {"_normalize_is_anomaly"}, cell : RawFlags \cup {Int8(0), Int8(1)}]
    \cup [fn : {"read_anom_pid_chunked"}, rows : LongFiles,
          pid : {P1, <<" ", "P", "1">>}, chunksize : 1..MaxRows]
    \cup [fn : {"read_insar_pid", "read_pred_pid"}, file : WideFiles,
          pid : {P1, <<"P", "1", " ">>, P3}]
    \cup [fn : {"align"}, pred : PredFrames, a95 : AnomFrames, a99 : AnomFrames]

NoCall == [fn |-> "none"]

NotReturned == [done |-> FALSE]

Value(v) == [done |-> TRUE, value |-> v]

Apply_normalize_is_anomaly ==
    /\ call.fn = "_normalize_is_anomaly" /\ ~ret.done
    /\ ret' = Value(_normalize_is_anomaly(<<[is_anomaly |-> call.cell]>>)[1].is_anomaly)
    /\ UNCHANGED <<sysvars, call>>

Apply_read_anom_pid_chunked ==
    /\ call.fn = "read_anom_pid_chunked" /\ ~ret.done
    /\ ret' = Value(read_anom_pid_chunked(call.rows, call.pid, call.chunksize))
    /\ UNCHANGED <<sysvars, call>>

Apply_read_insar_pid ==
    /\ call.fn = "read_insar_pid" /\ ~ret.done
    /\ ret' = Value(read_insar_pid(call.file, call.pid))
    /\ UNCHANGED <<sysvars, call>>

Apply_read_pred_pid ==
    /\ call.fn = "read_pred_pid" /\ ~ret.done
    /\ ret' = Value(read_pred_pid(call.file, call.pid))
    /\ UNCHANGED <<sysvars, call>>

Apply_align ==
    /\ call.fn = "align" /\ ~ret.done
    /\ ret' = Value(align(call.pred, call.a95, call.a99))
    /\ UNCHANGED <<sysvars, call>>

(***************************************************************************)
(* The files of the running application.  They are read-only: the program  *)
(* never writes them.                                                      *)
(***************************************************************************)
P4 == <<"P", "4">>

WideRow(d, c1, c2) == [Date |-> d, cells |-> (P1 :> c1) @@ (P2 :> c2) @@ (P4 :> NaN)]

\* WROC_TS_PATH: P4 has no measured value, P3 is not a column
WROC_TS ==
    [columns |-> {P1, P2, P4},
     rows    |-> << WideRow("2020-01-02", Num(6), Num(1)),
                    WideRow("2020-01-01", Num(5), NaN),
                    WideRow("2020-01-03", NaN, Num(2)) >>]

\* WROC_PRED_PATH: P2 has no predicted value
WROC_PRED ==
    [columns |-> {P1, P2, P4},
     rows    |-> << WideRow("2020-01-02", Num(6), NaN),
                    WideRow("2020-01-01", Num(5), NaN) >>]

LongRow(p, v, f) == [pid |-> Str(p), actual_value |-> v, is_anomaly |-> Str(f)]

\* WROC_A95_PATH
WROC_A95 ==
    << LongRow(P1, 1, <<"T", "r", "u", "e">>),
       LongRow(<<" ", "P", "2">>, 2, <<"0">>),
       LongRow(P1, 3, <<"n", "o">>),
       LongRow(<<" ", "P", "1", " ">>, 4, <<"Y", "E", "S">>) >>

\* WROC_A99_PATH
WROC_A99 ==
    << LongRow(P2, 1, <<"m", "a", "y", "b", "e">>),
       LongRow(P1, 2, <<"t">>),
       LongRow(P2, 3, <<"y">>) >>

Kinds == {"insar", "pred", "a95", "a99"}

WideKinds == {"insar", "pred"}

Workers == {"w1", "w2"}

\* the ids a click can carry: the pids of the geo table
Pids == {P1, P2, P3, P4}

LongFileOf(k) == IF k = "a95" THEN WROC_A95 ELSE WROC_A99

(***************************************************************************)
(* functools.lru_cache as the four decorators use it.  A cache is the      *)
(* sequence of its entries [key, value], least recently used first.        *)
(***************************************************************************)
lru_has(c, key) == \E i \in 1..Len(c) : c[i].key = key

lru_get(c, key) == c[CHOOSE i \in 1..Len(c) : c[i].key = key].value

\* a hit moves the entry to the most recently used end
lru_touch(c, key) ==
    SelectSeq(c, LAMBDA e : e.key # key) \o SelectSeq(c, LAMBDA e : e.key = key)

\* after the wrapped function returned: nothing if another caller stored the
\* key meanwhile, else insert, evicting the least recently used entry if full
lru_store(c, key, value) ==
    IF lru_has(c, key) THEN c
    ELSE IF Len(c) >= CacheCap THEN Append(Tail(c), [key |-> key, value |-> value])
    ELSE Append(c, [key |-> key, value |-> value])

lru_on_miss_reserves(c, key) == lru_store(c, key, EmptyFrame)

\* at a miss the wrapper counts the miss and calls the function: the cache
\* holds nothing for the key until the function has returned
lru_on_miss(c, key) == c

lru_on_raise_keeps_partial(c, key, partial) == lru_store(c, key, partial)

\* an exception of the wrapped function leaves the wrapper before it stores
lru_on_raise(c, key, partial) == c

lru_keys(c) == {c[i].key : i \in 1..Len(c)}

written_in_place(cached, aligned) == aligned

\* what the cached frame holds after lines 240-242 / 246-248 ran on it:
\* tail(n).reset_index(drop=True) built a new frame, the name was rebound to
\* it and the timestamp column was set on the new frame
written_frame(cached, aligned) == cached

(***************************************************************************)
(* display_displacement, one worker of the serving layer per request.      *)
(***************************************************************************)
At(step, kind) == [step |-> step, kind |-> kind]

Terminal == {"ready", "figure", "hidden", "ValueError", "ReadFailure"}

NoFrames == [k \in Kinds |-> EmptyFrame]

Init ==
    /\ cache = [k \in Kinds |-> <<>>]
    /\ pc = [t \in Workers |-> At("ready", "-")]
    /\ point_id = [t \in Workers |-> P1]
    /\ frames = [t \in Workers |-> NoFrames]
    /\ out = [t \in Workers |-> <<>>]
    /\ pos = [t \in Workers |-> 0]
    /\ looked = [k \in Kinds |-> {}]
    /\ repeat = [t \in Workers |-> FALSE]
    /\ started = 0
    /\ call = NoCall
    /\ ret = NotReturned

\* where a request goes once cached_<k> has returned df
after_lookup(k, df) ==
    CASE k = "insar" -> IF empty(df) THEN At("hidden", "-") ELSE At("lookup", "pred")
      [] k = "pred"  -> At("lookup", "a95")
      [] k = "a95"   -> At("lookup", "a99")
      [] k = "a99"   -> At("align", "-")

\* clickData is None
DisplayNoClick(t) ==
    /\ pc[t].step \in Terminal
    /\ started < MaxRequests
    /\ started' = started + 1
    /\ pc' = [pc EXCEPT ![t] = At("hidden", "-")]
    /\ frames' = [frames EXCEPT ![t] = NoFrames]
    /\ out' = [out EXCEPT ![t] = <<>>]
    /\ UNCHANGED <<cache, point_id, pos, looked, repeat, call, ret>>

\* a click on the point pid: point_id = hovertext.strip()
Dispatch(t, pid) ==
    /\ pc[t].step \in Terminal
    /\ started < MaxRequests
    /\ started' = started + 1
    /\ pc' = [pc EXCEPT ![t] = At("lookup", "insar")]
    /\ point_id' = [point_id EXCEPT ![t] = str_strip(pid)]
    /\ frames' = [frames EXCEPT ![t] = NoFrames]
    /\ out' = [out EXCEPT ![t] = <<>>]
    /\ UNCHANGED <<cache, pos, looked, repeat, call, ret>>

\* cached_<k>(point_id), the wrapper's first critical section, on a hit
LookupHit(t) ==
    LET k == pc[t].kind
        key == point_id[t]
    IN  /\ pc[t].step = "lookup"
        /\ lru_has(cache[k], key)
        /\ cache' = [cache EXCEPT ![k] = lru_touch(@, key)]
        /\ frames' = [frames EXCEPT ![t][k] = lru_get(cache[k], key)]
        /\ pc' = [pc EXCEPT ![t] = after_lookup(k, lru_get(cache[k], key))]
        /\ looked' = [looked EXCEPT ![k] = @ \cup {key}]
        /\ repeat' = [repeat EXCEPT ![t] = key \in looked[k]]
        /\ UNCHANGED <<point_id, out, pos, started, call, ret>>

\* the same on a miss: the wrapped reader is called outside the lock
LookupMiss(t) ==
    LET k == pc[t].kind
        key == point_id[t]
    IN  /\ pc[t].step = "lookup"
        /\ ~lru_has(cache[k], key)
        /\ cache' = [cache EXCEPT ![k] = lru_on_miss(@, key)]
        /\ pc' = [pc EXCEPT ![t] = At(IF k \in WideKinds THEN "read" ELSE "scan", k)]
        /\ repeat' = [repeat EXCEPT ![t] = key \in looked[k]]
        /\ out' = [out EXCEPT ![t] = <<>>]
        /\ pos' = [pos EXCEPT ![t] = 0]
        /\ UNCHANGED <<point_id, frames, looked, started, call, ret>>

\* read_insar_pid / read_pred_pid on the file
ReadWide(t) ==
    LET k == pc[t].kind
        key == point_id[t]
        r == IF k = "insar" THEN read_insar_pid(WROC_TS, key)
             ELSE read_pred_pid(WROC_PRED, key)
    IN  /\ pc[t].step = "read"
        /\ IF r.exc = "none"
           THEN /\ frames' = [frames EXCEPT ![t][k] = r.df]
                /\ pc' = [pc EXCEPT ![t] = At("store", k)]
                /\ UNCHANGED <<cache, looked>>
           ELSE /\ cache' = [cache EXCEPT ![k] = lru_on_raise(@, key, r.df)]
                /\ pc' = [pc EXCEPT ![t] = At(r.exc, k)]
                /\ looked' = [looked EXCEPT ![k] = @ \cup {key}]
                /\ UNCHANGED frames
        /\ UNCHANGED <<point_id, out, pos, repeat, started, call, ret>>

\* pd.read_csv fails on the file: the error leaves cached_<k> and the request
ReadWideFails(t) ==
    LET k == pc[t].kind
    IN  /\ pc[t].step = "read"
        /\ cache' = [cache EXCEPT ![k] = lru_on_raise(@, point_id[t], EmptyFrame)]
        /\ pc' = [pc EXCEPT ![t] = At("ReadFailure", k)]
        /\ UNCHANGED <<point_id, frames, out, pos, looked, repeat, started, call, ret>>

\* one iteration of the loop of read_anom_pid_chunked
ScanChunk(t) ==
    LET k == pc[t].kind
        rows == LongFileOf(k)
    IN  /\ pc[t].step = "scan"
        /\ more_chunks(rows, ChunkRows, pos[t] + 1, out[t])
        /\ out' = [out EXCEPT ![t] =
                      scan_chunk(@, chunk(rows, ChunkRows, pos[t] + 1), point_id[t])]
        /\ pos' = [pos EXCEPT ![t] = @ + 1]
        /\ UNCHANGED <<cache, pc, point_id, frames, looked, repeat, started, call, ret>>

\* reading the next chunk fails: the error leaves the scan with `out` half built
ScanFails(t) ==
    LET k == pc[t].kind
        rows == LongFileOf(k)
    IN  /\ pc[t].step = "scan"
        /\ more_chunks(rows, ChunkRows, pos[t] + 1, out[t])
        /\ cache' = [cache EXCEPT ![k] = lru_on_raise(@, point_id[t], scan_finish(out[t]))]
        /\ pc' = [pc EXCEPT ![t] = At("ReadFailure", k)]
        /\ UNCHANGED <<point_id, frames, out, pos, looked, repeat, started, call, ret>>

\* the loop is over: concatenate, normalize, return
ScanFinish(t) ==
    LET k == pc[t].kind
        rows == LongFileOf(k)
    IN  /\ pc[t].step = "scan"
        /\ ~more_chunks(rows, ChunkRows, pos[t] + 1, out[t])
        /\ frames' = [frames EXCEPT ![t][k] = scan_finish(out[t])]
        /\ out' = [out EXCEPT ![t] = <<>>]
        /\ pos' = [pos EXCEPT ![t] = 0]
        /\ pc' = [pc EXCEPT ![t] = At("store", k)]
        /\ UNCHANGED <<cache, point_id, looked, repeat, started, call, ret>>

\* the wrapper's second critical section: store the result and return it
Store(t) ==
    LET k == pc[t].kind
        key == point_id[t]
        c == lru_store(cache[k], key, frames[t][k])
    IN  /\ pc[t].step = "store"
        /\ cache' = [cache EXCEPT ![k] = c]
        /\ looked' = [looked EXCEPT ![k] = (@ \ (lru_keys(cache[k]) \ lru_keys(c))) \cup {key}]
        /\ pc' = [pc EXCEPT ![t] = after_lookup(k, frames[t][k])]
        /\ UNCHANGED <<point_id, frames, out, pos, repeat, started, call, ret>>

\* the cache of one kind after a worker's alignment wrote to its local: the
\* local is the cached object when it was returned by the cache, which is the
\* entry of its key holding the same value
write_back(c, key, local, aligned) ==
    [i \in 1..Len(c) |->
        IF c[i].key = key /\ c[i].value = local
        THEN [c[i] EXCEPT !.value = written_frame(@, aligned)]
        ELSE c[i]]

\* lines 235-337: align both bands on pred, draw, return the figure
Align(t) ==
    LET key == point_id[t]
        al == align(frames[t].pred, frames[t].a95, frames[t].a99)
    IN  /\ pc[t].step = "align"
        /\ frames' = [frames EXCEPT ![t].pred = al.pred, ![t].a95 = al.a95,
                                    ![t].a99 = al.a99]
        /\ cache' = [k \in Kinds |->
                        IF k \in {"pred", "a95", "a99"}
                        THEN write_back(cache[k], key, frames[t][k], al[k])
                        ELSE cache[k]]
        /\ pc' = [pc EXCEPT ![t] = At("figure", "-")]
        /\ UNCHANGED <<point_id, out, pos, looked, repeat, started, call, ret>>

Next ==
    \E t \in Workers :
        \/ DisplayNoClick(t)
        \/ \E pid \in Pids : Dispatch(t, pid)
        \/ LookupHit(t)
        \/ LookupMiss(t)
        \/ ReadWide(t)
        \/ ReadWideFails(t)
        \/ ScanChunk(t)
        \/ ScanFails(t)
        \/ ScanFinish(t)
        \/ Store(t)
        \/ Align(t)

Spec == Init /\ [][Next]_vars

InitFn ==
    /\ cache = [k \in Kinds |-> <<>>]
    /\ pc = [t \in Workers |-> At("ready", "-")]
    /\ point_id = [t \in Workers |-> P1]
    /\ frames = [t \in Workers |-> NoFrames]
    /\ out = [t \in Workers |-> <<>>]
    /\ pos = [t \in Workers |-> 0]
    /\ looked = [k \in Kinds |-> {}]
    /\ repeat = [t \in Workers |-> FALSE]
    /\ started = 0
    /\ call \in Calls
    /\ ret = NotReturned

NextFn ==
    \/ Apply_normalize_is_anomaly
    \/ Apply_read_anom_pid_chunked
    \/ Apply_read_insar_pid
    \/ Apply_read_pred_pid
    \/ Apply_align

SpecFn == InitFn /\ [][NextFn]_vars

(***************************************************************************)
(* Properties of the functions (checked under SpecFn).                     *)
(***************************************************************************)
\* the row of P at ascending timestamp position i (timestamps are distinct)
Asc(P, i) ==
    P[CHOOSE j \in 1..Len(P) :
        Cardinality({m \in 1..Len(P) : P[m].timestamp < P[j].timestamp}) = i - 1]

AlignedTail(P, A, R) ==
    LET n == Min(Len(P), Len(A))
    IN  /\ Len(R) = n
        /\ \A i \in 1..n :
              /\ R[i].pid = A[Len(A) - n + i].pid
              /\ R[i].actual_value = A[Len(A) - n + i].actual_value
              /\ R[i].is_anomaly = A[Len(A) - n + i].is_anomaly
              /\ R[i].timestamp = Asc(P, Len(P) - n + i).timestamp

\* C1: aligning a non-empty prediction series P with a non-empty anomaly
\* sequence A gives, for each band, exactly n = min(len(P), len(A)) records:
\* the last n records of A in their order, the i-th carrying the timestamp of
\* the i-th of the last n elements of P in ascending timestamp order.
C1_AlignmentTail ==
    (call.fn = "align" /\ ret.done) =>
        \A band \in {"a95", "a99"} :
            (call.pred.rows # <<>> /\ call[band].rows # <<>>) =>
                AlignedTail(call.pred.rows, call[band].rows, ret.value[band].rows)

\* a prediction of 2 points against a band of 3 records (the band is cut) and
\* a band of 1 record (the prediction's tail is used)
C1_Witness ==
    /\ call.fn = "align" /\ ret.done
    /\ Len(call.pred.rows) = 2 /\ Len(call.a95.rows) = 3 /\ Len(call.a99.rows) = 1
    /\ Len(ret.value.a95.rows) = 2 /\ Len(ret.value.a99.rows) = 1
    /\ ret.value.a99.rows[1].timestamp = call.pred.rows[2].timestamp

OneSideEmpty(p, a) == empty(p) # empty(a)

\* C8 as stated: with exactly one side empty, both the prediction series and
\* the anomaly sequence of the result are empty.
C8_Original ==
    (call.fn = "align" /\ ret.done) =>
        \A band \in {"a95", "a99"} :
            OneSideEmpty(call.pred, call[band]) =>
                empty(ret.value.pred) /\ empty(ret.value[band])

\* C8 amended: with exactly one side empty the alignment changes neither
\* side: the prediction series and the anomaly sequence are returned as they
\* came, no timestamp is assigned, and the band is not drawn while a non-empty
\* prediction series is.
C8_OneSideEmptyUnchanged ==
    (call.fn = "align" /\ ret.done) =>
        \A band \in {"a95", "a99"} :
            OneSideEmpty(call.pred, call[band]) =>
                /\ ret.value.pred = call.pred
                /\ ret.value[band] = call[band]
                /\ ~drawn(ret.value)[band]
                /\ drawn(ret.value).pred = ~empty(call.pred)

\* an empty prediction series against a band of two records
C8_Witness ==
    /\ call.fn = "align" /\ ret.done
    /\ call.pred.rows = <<>> /\ Len(call.a95.rows) = 2
    /\ Len(ret.value.a95.rows) = 2

\* C9: for an id that is a column of the wide file the reader returns exactly
\* the rows whose value is present, by non-decreasing timestamp: as many rows
\* as there are present values, each present value with its parsed date, no
\* missing value.  The dates of a file being distinct, this fixes the result
\* whatever the row order of the file.
C9_WideReader ==
    (call.fn \in {"read_insar_pid", "read_pred_pid"} /\ ret.done
        /\ str_strip(call.pid) \in call.file.columns) =>
        LET col == IF call.fn = "read_insar_pid" THEN "displacement" ELSE "predicted_value"
            p == str_strip(call.pid)
            src == call.file.rows
            R == ret.value.df.rows
            Present == {i \in 1..Len(src) : ~src[i].cells[p].nan}
        IN  /\ ret.value.exc = "none"
            /\ Len(R) = Cardinality(Present)
            /\ \A i \in Present : \E j \in 1..Len(R) :
                  /\ R[j].timestamp = to_datetime(src[i].Date)
                  /\ R[j][col] = src[i].cells[p]
            /\ \A j \in 1..Len(R) : ~R[j][col].nan
            /\ \A j \in 1..(Len(R) - 1) : R[j].timestamp <= R[j + 1].timestamp

\* a file of three rows out of date order, one of them without a value
C9_Witness ==
    /\ call.fn = "read_insar_pid" /\ ret.done
    /\ call.pid = <<"P", "1", " ">>
    /\ Len(call.file.rows) = 3
    /\ call.file.rows[1].Date = "2020-01-03" /\ ~call.file.rows[1].cells[P1].nan
    /\ call.file.rows[2].cells[P1].nan
    /\ call.file.rows[3].Date = "2020-01-01" /\ ~call.file.rows[3].cells[P1].nan
    /\ Len(ret.value.df.rows) = 2
    /\ ret.value.df.rows[1].timestamp = 1

\* C7: for every file, id and chunk size the scanner returns exactly the
\* rows whose trimmed pid equals the trimmed id, in file order (actual_value
\* is the row's position in the file), whatever the chunk size; with no
\* matching row it returns the empty frame.
C7_ScannerIsFilter ==
    (call.fn = "read_anom_pid_chunked" /\ ret.done) =>
        LET src == call.rows
            q == str_strip(call.pid)
            Match == {i \in 1..Len(src) : ~src[i].pid.na /\ str_strip(src[i].pid.s) = q}
            R == ret.value.rows
        IN  /\ Len(R) = Cardinality(Match)
            /\ \A j \in 1..Len(R) : R[j].actual_value \in Match /\ R[j].pid = Str(q)
            /\ \A j \in 1..(Len(R) - 1) : R[j].actual_value < R[j + 1].actual_value
            /\ Match = {} => ret.value = EmptyFrame

\* chunks of one row; the first and third rows match, the second does not
C7_Witness ==
    /\ call.fn = "read_anom_pid_chunked" /\ ret.done
    /\ call.chunksize = 1 /\ Len(call.rows) = 3
    /\ call.rows[1].pid = Str(P1)
    /\ call.rows[2].pid = Str(P2)
    /\ call.rows[3].pid = Str(<<" ", "P", "1", "\t">>)
    /\ Len(ret.value.rows) = 2
    /\ ret.value.rows[2].actual_value = 3

FoldedTrue(c) ==
    str_lower(str_strip(astype_str(c))) \in
        { <<"t", "r", "u", "e">>, <<"1">>, <<"t">>, <<"y", "e", "s">>, <<"y">> }

\* C10: the normalizer gives 1 exactly when the trimmed, case-folded value is
\* one of "true", "1", "t", "yes", "y", and 0 otherwise (empty, missing and
\* unrecognized values included); normalizing its result again changes
\* nothing; every is_anomaly of a scan result is 0 or 1 and is the single
\* normalization of the file's raw value.
C10_Normalizer ==
    /\ (call.fn = "_normalize_is_anomaly" /\ ret.done) =>
          /\ ret.value = Int8(IF FoldedTrue(call.cell) THEN 1 ELSE 0)
          /\ (call.cell.na \/ (call.cell.dtype = "string" /\ call.cell.s = <<>>)) =>
                ret.value = Int8(0)
          /\ call.cell = Str(<<" ", "T", "R", "U", "E", "\t">>) => ret.value = Int8(1)
          /\ _normalize_is_anomaly(<<[is_anomaly |-> ret.value]>>)[1].is_anomaly = ret.value
    /\ (call.fn = "read_anom_pid_chunked" /\ ret.done) =>
          \A j \in 1..Len(ret.value.rows) :
              LET raw == call.rows[ret.value.rows[j].actual_value].is_anomaly
              IN  /\ ret.value.rows[j].is_anomaly \in {Int8(0), Int8(1)}
                  /\ ret.value.rows[j].is_anomaly = Int8(IF FoldedTrue(raw) THEN 1 ELSE 0)

\* a scan result holding a padded mixed-case "Yes" and a missing flag
C10_Witness ==
    /\ call.fn = "read_anom_pid_chunked" /\ ret.done
    /\ call.chunksize = 2 /\ Len(call.rows) = 3 /\ Len(ret.value.rows) = 3
    /\ call.rows[1].is_anomaly = Str(<<" ", "Y", "e", "s">>)
    /\ call.rows[2].is_anomaly = NA
    /\ ret.value.rows[1].is_anomaly = Int8(1)
    /\ ret.value.rows[2].is_anomaly = Int8(0)

(***************************************************************************)
(* Properties of the cached lookups (checked under Spec).                  *)
(***************************************************************************)
\* C2 as stated: a lookup of an id that is not a column of the wide file
\* surfaces no error (it returns an empty series).
C2_Original ==
    \A t \in Workers :
        str_strip(point_id[t]) \notin WROC_TS.columns => pc[t].step # "ValueError"

\* C3: an entry is never changed while it is held: every key held before and
\* after a step has the same value, and no cached anomaly entry ever has a
\* timestamp column.
C3_CachedNeverMutated ==
    [][ \A k \in Kinds :
          /\ \A key \in lru_keys(cache[k]) \cap lru_keys(cache'[k]) :
                lru_get(cache'[k], key) = lru_get(cache[k], key)
          /\ k \in {"a95", "a99"} =>
                \A i \in 1..Len(cache'[k]) : "timestamp" \notin cache'[k][i].value.columns
      ]_vars

\* both workers have drawn P1, the second from the cached series of a
\* completed lookup; each cut its own copy of the 95% band to 2 records with
\* timestamps while the cached band still has its 3 records
C3_Witness ==
    /\ \A t \in Workers :
          /\ pc[t].step = "figure" /\ point_id[t] = P1
          /\ Len(frames[t].a95.rows) = 2 /\ "timestamp" \in frames[t].a95.columns
    /\ \E t \in Workers : repeat[t]
    /\ lru_has(cache["a95"], P1)
    /\ Len(lru_get(cache["a95"], P1).rows) = 3

\* C4 as stated: a lookup that begins after a completed lookup of the same id
\* in the same kind, with no eviction of the id in between, does not read the
\* file.
C4_Original ==
    \A t \in Workers : pc[t].step \in {"read", "scan"} => ~repeat[t]

\* the complete series of kind k for key: the whole file read at once
Complete(k, key) ==
    CASE k = "insar" -> read_insar_pid(WROC_TS, key).df
      [] k = "pred"  -> read_pred_pid(WROC_PRED, key).df
      [] k = "a95"   -> read_anom_pid_chunked(WROC_A95, key, Len(WROC_A95) + 1)
      [] k = "a99"   -> read_anom_pid_chunked(WROC_A99, key, Len(WROC_A99) + 1)

Computing(t, k, key) ==
    pc[t].step \in {"read", "scan", "store"} /\ pc[t].kind = k /\ point_id[t] = key

\* C5 as stated: no partially built entry is ever visible, and concurrent
\* misses of one key do not both recompute the series.
C5_Original ==
    /\ \A k \in Kinds : \A i \in 1..Len(cache[k]) :
          cache[k][i].value = Complete(k, cache[k][i].key)
    /\ \A t1, t2 \in Workers : \A k \in Kinds :
          (t1 # t2 /\ Computing(t1, k, point_id[t1])) => ~Computing(t2, k, point_id[t1])

\* C5 amended: no partially built entry is ever visible: every entry of a
\* cache is the complete series of its key, and what a worker is about to
\* store is complete (populate, then publish).  Concurrent misses of one key
\* may each recompute the series.
C5_PopulateThenPublish ==
    /\ \A k \in Kinds : \A i \in 1..Len(cache[k]) :
          cache[k][i].value = Complete(k, cache[k][i].key)
    /\ \A t \in Workers :
          pc[t].step = "store" => frames[t][pc[t].kind] = Complete(pc[t].kind, point_id[t])

\* both workers missed P1 in the 95% cache: one has the complete series in
\* hand, the other is half way through the file, the cache holds nothing
C5_Witness ==
    \E t1, t2 \in Workers :
        /\ pc[t1] = At("store", "a95") /\ point_id[t1] = P1
        /\ pc[t2] = At("scan", "a95") /\ point_id[t2] = P1
        /\ pos[t2] = 1 /\ out[t2] # <<>>
        /\ ~lru_has(cache["a95"], P1)

\* C6: a step in which a worker's read fails leaves every cache as it was.
C6_FailureLeavesCache ==
    [][ \A t \in Workers :
          (pc[t].step # "ReadFailure" /\ pc'[t].step = "ReadFailure") => cache' = cache
      ]_vars

\* a scan of the 95% file failed after its first chunk had matched; nothing
\* is cached for the id
C6_Witness ==
    \E t \in Workers :
        /\ pc[t] = At("ReadFailure", "a95")
        /\ pos[t] = 1 /\ out[t] # <<>>
        /\ ~lru_has(cache["a95"], point_id[t])

====
